---------------------------- MODULE Spec2Model ----------------------------
(***************************************************************************)
(* automatic-redshift: the Wayland output registry (src/src/wayland.rs)    *)
(* and the event loop with its sun scheduler (src/src/main.rs).            *)
(*                                                                         *)
(* The compositor is the environment: it writes protocol events to the     *)
(* socket.  Wayland::poll moves them from the socket into the connection's *)
(* event queue (recv_events); only dispatch_events, called from            *)
(* Wayland::new and Wayland::set_temperature, hands queued events to the   *)
(* callbacks wl_registry_cb, gamma_control_cb and wl_output_cb.            *)
(*                                                                         *)
(* Timestamps are integers in milliseconds.  The f64 arithmetic of         *)
(* interpolate_temperature is modelled with exact rationals (integer       *)
(* numerator and denominator) and the saturating `as u16` cast.            *)
(*                                                                         *)
(* Assumptions: the compositor never reuses a registry name; an event for  *)
(* an object the client has already destroyed still reaches its callback;  *)
(* the version check of Output::bind and the flush never fail; the u16 sum *)
(* of WaylandState::color wraps.                                           *)
(***************************************************************************)
EXTENDS Integers, Sequences, FiniteSets, TLC

VARIABLES
    pc,           \* position of main: "start", "new" (in Wayland::new, events
                  \* left to dispatch), "select" (at the select!), "apply"
                  \* (in Wayland::set_temperature), "exited", "panicked"
    socket,       \* events the compositor has written, not yet received
    queue,        \* Connection's event queue: received, not yet dispatched
    outputs,      \* WaylandState::outputs, a Vec<Output>
    destroyed,    \* per registry name: destroy/release requests issued on its handles
    advertised,   \* compositor side: globals currently advertised
    failedSent,   \* compositor side: gamma controls it has declared failed
    nextName,     \* compositor side: next registry name to hand out
    temp,         \* main: `temp`
    coordinates,  \* main: `coordinates` (Option)
    sun,          \* main: `sun` (Option)
    sent,         \* set_gamma requests issued by the last step of the program
    handled,      \* the event that step dispatched and the output it named
    last,         \* what the last loop iteration did
    twice,        \* record of the last two back-to-back set_temperature calls
    applied,      \* a function applied on its own: its name, arguments, result
    hasManager    \* compositor side: it advertises the gamma-control manager

vars == <<pc, socket, queue, outputs, destroyed, advertised, failedSent, nextName,
          temp, coordinates, sun, sent, handled, last, twice, applied, hasManager>>

----------------------------------------------------------------------------
(* Bounds of the model *)

MaxOutputs == 2
MaxQueue == 2

Names == 1..MaxOutputs

\* ramp sizes the compositor may report in a GammaSize event
RampSizes == {0, 256}

\* Option<T>
None == <<>>
Some(x) == <<x>>
Unwrap(o) == o[1]

----------------------------------------------------------------------------
(* main.rs: constants and the sun scheduler *)

HIGH_TEMP == 6500
LOW_TEMP == 4000
INITIAL_TEMP == 6500
MILLIS_PER_SECOND == 1000
U16_MAX == 65535

\* jiff Span::get_seconds of a Timestamp difference given in milliseconds:
\* the whole seconds, truncated toward zero
get_seconds(ms) ==
    IF ms >= 0 THEN ms \div MILLIS_PER_SECOND
    ELSE 0 - ((0 - ms) \div MILLIS_PER_SECOND)

\* `x as u16` for a finite f64 given as num/den (den > 0): truncates toward
\* zero and saturates
as_u16(num, den) ==
    IF num <= 0 THEN 0
    ELSE IF num \div den > U16_MAX THEN U16_MAX
    ELSE num \div den

\* time_pos = (now - start).get_seconds() / (stop - start).get_seconds(),
\* clamped to [0, 1], then (temp_start + time_pos * (temp_stop - temp_start))
\* as u16
interpolate_span(now, start, stop, temp_start, temp_stop) ==
    LET a == get_seconds(now - start)
        b == get_seconds(stop - start)
    IN IF b = 0
       THEN \* division by 0.0: 0/0 is NaN, which clamp keeps and
            \* `as u16` turns into 0; a/0 is +-inf, clamped to 1 or 0
            IF a = 0 THEN 0
            ELSE IF a > 0 THEN temp_stop
            ELSE temp_start
       ELSE LET n == IF (a < 0) # (b < 0) THEN 0   \* time_pos < 0
                     ELSE IF (IF a < 0 THEN 0 - a ELSE a)
                              > (IF b < 0 THEN 0 - b ELSE b)
                          THEN b                    \* time_pos > 1
                     ELSE a
                d == IF b < 0 THEN 0 - b ELSE b
                m == IF b < 0 THEN 0 - n ELSE n
            IN as_u16(temp_start * d + (temp_stop - temp_start) * m, d)

interpolate_temperature_unguarded(now, start, stop, temp_start, temp_stop) ==
    interpolate_span(now, start, stop, temp_start, temp_stop)

interpolate_temperature(now, start, stop, temp_start, temp_stop) ==
    IF start = stop THEN temp_stop
    ELSE interpolate_span(now, start, stop, temp_start, temp_stop)

get_temperature(now, s) ==
    IF now < s.dawn THEN LOW_TEMP
    ELSE IF now < s.sunrise
        THEN interpolate_temperature(now, s.dawn, s.sunrise, LOW_TEMP, HIGH_TEMP)
    ELSE IF now < s.sunset THEN HIGH_TEMP
    ELSE IF now < s.dusk
        THEN interpolate_temperature(now, s.sunset, s.dusk, HIGH_TEMP, LOW_TEMP)
    ELSE LOW_TEMP

----------------------------------------------------------------------------
(* color: the Color profile.  wayland.rs imports Color and colorramp_fill  *)
(* from crate::color; that version of the module is not among the source  *)
(* files, so both are modelled from the specification's data model.        *)

DEFAULT_TEMP == 6500

\* Color::default(): gamma 1.0, brightness 1.0, not inverted
DefaultColor ==
    [temp |-> DEFAULT_TEMP, gamma |-> 1, brightness |-> 1, inverted |-> FALSE]

MIN_RAMP_TEMP == 1000
MAX_RAMP_TEMP == 10000

\* the ramp generator accepts temperatures in [1000, 10000] only; it fails
\* for any other
colorramp_fill_ok(color) ==
    color.temp >= MIN_RAMP_TEMP /\ color.temp <= MAX_RAMP_TEMP

----------------------------------------------------------------------------
(* color.rs: the ramp generator.  A tint channel, a real in [0, 1] written *)
(* with eight decimals in the source, is the integer number of its         *)
(* 1e-8 units; the f64 products are computed exactly and then truncated,   *)
(* so a sample may differ by one from the f64 result where the exact       *)
(* product is within rounding distance of a whole number.                  *)

COLOR_SCALE_DIGITS == 8
TEMP_STEP == 100

COLOR_FOR_TEMPERATURE == <<
    [r |-> 100000000, g |-> 18172716, b |-> 0],
    [r |-> 100000000, g |-> 25503671, b |-> 0],
    [r |-> 100000000, g |-> 30942099, b |-> 0],
    [r |-> 100000000, g |-> 35357379, b |-> 0],
    [r |-> 100000000, g |-> 39091524, b |-> 0],
    [r |-> 100000000, g |-> 42322816, b |-> 0],
    [r |-> 100000000, g |-> 45159884, b |-> 0],
    [r |-> 100000000, g |-> 47675916, b |-> 0],
    [r |-> 100000000, g |-> 49923747, b |-> 0],
    [r |-> 100000000, g |-> 51943421, b |-> 0],
    [r |-> 100000000, g |-> 54360078, b |-> 8679949],
    [r |-> 100000000, g |-> 56618736, b |-> 14065513],
    [r |-> 100000000, g |-> 58734976, b |-> 18362641],
    [r |-> 100000000, g |-> 60724493, b |-> 22137978],
    [r |-> 100000000, g |-> 62600248, b |-> 25591950],
    [r |-> 100000000, g |-> 64373109, b |-> 28819679],
    [r |-> 100000000, g |-> 66052319, b |-> 31873863],
    [r |-> 100000000, g |-> 67645822, b |-> 34786758],
    [r |-> 100000000, g |-> 69160518, b |-> 37579588],
    [r |-> 100000000, g |-> 70602449, b |-> 40267128],
    [r |-> 100000000, g |-> 71976951, b |-> 42860152],
    [r |-> 100000000, g |-> 73288760, b |-> 45366838],
    [r |-> 100000000, g |-> 74542112, b |-> 47793608],
    [r |-> 100000000, g |-> 75740814, b |-> 50145662],
    [r |-> 100000000, g |-> 76888303, b |-> 52427322],
    [r |-> 100000000, g |-> 77987699, b |-> 54642268],
    [r |-> 100000000, g |-> 79041843, b |-> 56793692],
    [r |-> 100000000, g |-> 80053332, b |-> 58884417],
    [r |-> 100000000, g |-> 81024551, b |-> 60916971],
    [r |-> 100000000, g |-> 81957693, b |-> 62893653],
    [r |-> 100000000, g |-> 82854786, b |-> 64816570],
    [r |-> 100000000, g |-> 83717703, b |-> 66687674],
    [r |-> 100000000, g |-> 84548188, b |-> 68508786],
    [r |-> 100000000, g |-> 85347859, b |-> 70281616],
    [r |-> 100000000, g |-> 86118227, b |-> 72007777],
    [r |-> 100000000, g |-> 86860704, b |-> 73688797],
    [r |-> 100000000, g |-> 87576611, b |-> 75326132],
    [r |-> 100000000, g |-> 88267187, b |-> 76921169],
    [r |-> 100000000, g |-> 88933596, b |-> 78475236],
    [r |-> 100000000, g |-> 89576933, b |-> 79989606],
    [r |-> 100000000, g |-> 90198230, b |-> 81465502],
    [r |-> 100000000, g |-> 90963069, b |-> 82838210],
    [r |-> 100000000, g |-> 91710889, b |-> 84190889],
    [r |-> 100000000, g |-> 92441842, b |-> 85523742],
    [r |-> 100000000, g |-> 93156127, b |-> 86836903],
    [r |-> 100000000, g |-> 93853986, b |-> 88130458],
    [r |-> 100000000, g |-> 94535695, b |-> 89404470],
    [r |-> 100000000, g |-> 95201559, b |-> 90658983],
    [r |-> 100000000, g |-> 95851906, b |-> 91894041],
    [r |-> 100000000, g |-> 96487079, b |-> 93109690],
    [r |-> 100000000, g |-> 97107439, b |-> 94305985],
    [r |-> 100000000, g |-> 97713351, b |-> 95482993],
    [r |-> 100000000, g |-> 98305189, b |-> 96640795],
    [r |-> 100000000, g |-> 98883326, b |-> 97779486],
    [r |-> 100000000, g |-> 99448139, b |-> 98899179],
    [r |-> 100000000, g |-> 100000000, b |-> 100000000],
    [r |-> 98947904, g |-> 99348723, b |-> 100000000],
    [r |-> 97940448, g |-> 98722715, b |-> 100000000],
    [r |-> 96975025, g |-> 98120637, b |-> 100000000],
    [r |-> 96049223, g |-> 97541240, b |-> 100000000],
    [r |-> 95160805, g |-> 96983355, b |-> 100000000],
    [r |-> 94303638, g |-> 96443333, b |-> 100000000],
    [r |-> 93480451, g |-> 95923080, b |-> 100000000],
    [r |-> 92689056, g |-> 95421394, b |-> 100000000],
    [r |-> 91927697, g |-> 94937330, b |-> 100000000],
    [r |-> 91194747, g |-> 94470005, b |-> 100000000],
    [r |-> 90488690, g |-> 94018594, b |-> 100000000],
    [r |-> 89808115, g |-> 93582323, b |-> 100000000],
    [r |-> 89151710, g |-> 93160469, b |-> 100000000],
    [r |-> 88518247, g |-> 92752354, b |-> 100000000],
    [r |-> 87906581, g |-> 92357340, b |-> 100000000],
    [r |-> 87315640, g |-> 91974827, b |-> 100000000],
    [r |-> 86744421, g |-> 91604254, b |-> 100000000],
    [r |-> 86191983, g |-> 91245088, b |-> 100000000],
    [r |-> 85657444, g |-> 90896831, b |-> 100000000],
    [r |-> 85139976, g |-> 90559011, b |-> 100000000],
    [r |-> 84638799, g |-> 90231183, b |-> 100000000],
    [r |-> 84153180, g |-> 89912926, b |-> 100000000],
    [r |-> 83682430, g |-> 89603843, b |-> 100000000],
    [r |-> 83225897, g |-> 89303558, b |-> 100000000],
    [r |-> 82782969, g |-> 89011714, b |-> 100000000],
    [r |-> 82353066, g |-> 88727974, b |-> 100000000],
    [r |-> 81935641, g |-> 88452017, b |-> 100000000],
    [r |-> 81530175, g |-> 88183541, b |-> 100000000],
    [r |-> 81136180, g |-> 87922257, b |-> 100000000],
    [r |-> 80753191, g |-> 87667891, b |-> 100000000],
    [r |-> 80380769, g |-> 87420182, b |-> 100000000],
    [r |-> 80018497, g |-> 87178882, b |-> 100000000],
    [r |-> 79665980, g |-> 86943756, b |-> 100000000],
    [r |-> 79322843, g |-> 86714579, b |-> 100000000],
    [r |-> 78988728, g |-> 86491137, b |-> 100000000],
    [r |-> 78663296, g |-> 86273225, b |-> 100000000]
>>

\* f64 clamped to [0, 1], for a whole-numbered factor
clamped01(factor) ==
    IF factor < 0 THEN 0 ELSE IF factor > 1 THEN 1 ELSE factor

\* vek's Lerp::lerp on one channel: lerp_unclamped with the factor clamped
\* to [0, 1]
lerp(from, to, factor) == from + (to - from) * clamped01(factor)

\* vek's Rgb::lerp
Rgb_lerp(from, to, factor) ==
    [r |-> lerp(from.r, to.r, factor),
     g |-> lerp(from.g, to.g, factor),
     b |-> lerp(from.b, to.b, factor)]

NoTint == [r |-> 0, g |-> 0, b |-> 0]

find_interpolated_temperature_color_to_table_end(temperature) ==
    LET current == (temperature - MIN_RAMP_TEMP) \div TEMP_STEP
    IN IF temperature < MIN_RAMP_TEMP \/ current + 2 > Len(COLOR_FOR_TEMPERATURE)
       THEN [ok |-> FALSE, current |-> 0, next |-> 0, color |-> NoTint]
       ELSE [ok |-> TRUE, current |-> current, next |-> current + 1,
             color |-> Rgb_lerp(COLOR_FOR_TEMPERATURE[current + 1],
                                COLOR_FOR_TEMPERATURE[current + 2],
                                temperature % TEMP_STEP)]

\* find_interpolated_temperature_color: Err outside [1000, 10000]; current
\* and next are the (zero-based) indices into the table, and the factor
\* handed to lerp is `temperature % 100.`, a number from 0 to 99
find_interpolated_temperature_color(temperature) ==
    IF temperature < MIN_RAMP_TEMP \/ temperature > MAX_RAMP_TEMP
    THEN [ok |-> FALSE, current |-> 0, next |-> 0, color |-> NoTint]
    ELSE LET current == (temperature - MIN_RAMP_TEMP) \div TEMP_STEP
             next == current + 1
             factor == temperature % TEMP_STEP
         IN [ok |-> TRUE, current |-> current, next |-> next,
             color |-> Rgb_lerp(COLOR_FOR_TEMPERATURE[current + 1],
                                COLOR_FOR_TEMPERATURE[next + 1], factor)]

\* floor((q * c + carry) / 10^k), one decimal digit of c at a time
RECURSIVE MulDivPow10(_, _, _, _)
MulDivPow10(q, c, k, carry) ==
    IF k = 0 THEN q * c + carry
    ELSE MulDivPow10(q, c \div 10, k - 1, (q * (c % 10) + carry) \div 10)

ramp_sample_descending(i, ramp_size, channel) ==
    IF ramp_size = 1 THEN 0
    ELSE MulDivPow10(U16_MAX * (ramp_size - 1 - i), channel, COLOR_SCALE_DIGITS, 0)
            \div (ramp_size - 1)

\* (intensity * temperature_color.channel) as u16 with
\* intensity = step * i, step = u16::MAX / (ramp_size - 1); for
\* ramp_size = 1 the step is infinite and inf * 0 is NaN, which is 0 as u16
ramp_sample(i, ramp_size, channel) ==
    IF ramp_size = 1 THEN 0
    ELSE MulDivPow10(U16_MAX * i, channel, COLOR_SCALE_DIGITS, 0)
            \div (ramp_size - 1)

\* one channel after the loop `for i in 0..ramp_size`
fill_channel(buf, ramp_size, channel) ==
    [k \in DOMAIN buf |->
        IF k <= ramp_size THEN ramp_sample(k - 1, ramp_size, channel) ELSE buf[k]]

\* fill_colorramp on the buffers r, g, b (each of at least ramp_size
\* samples, ramp_size >= 1): the buffers afterwards, and whether Ok
fill_colorramp(r, g, b, ramp_size, temperature) ==
    LET tc == find_interpolated_temperature_color(temperature)
    IN IF ~tc.ok
       THEN [ok |-> FALSE, r |-> r, g |-> g, b |-> b]
       ELSE [ok |-> TRUE,
             r |-> fill_channel(r, ramp_size, tc.color.r),
             g |-> fill_channel(g, ramp_size, tc.color.g),
             b |-> fill_channel(b, ramp_size, tc.color.b)]

----------------------------------------------------------------------------
(* wayland.rs: Output *)

RAMP_BYTES_PER_ENTRY == 6

ramp_buffer_len_one_channel(ramp_size) == ramp_size * 2

\* file.set_len(self.ramp_size as u64 * 6): three channels of u16 samples
ramp_buffer_len(ramp_size) == ramp_size * RAMP_BYTES_PER_ENTRY

\* Output::bind: wl and gamma_control are fresh protocol objects; an object
\* is identified here by the registry name it was created for
Output_bind(reg_name) ==
    [reg_name |-> reg_name, wl |-> reg_name, name |-> None,
     color |-> DefaultColor, gamma_control |-> reg_name,
     ramp_size |-> 0, color_changed |-> TRUE]

Output_set_color_always_dirty(o, color) ==
    [o EXCEPT !.color = color, !.color_changed = TRUE]

Output_set_color(o, color) ==
    IF color # o.color
    THEN [o EXCEPT !.color = color, !.color_changed = TRUE]
    ELSE o

\* Output::destroy: gamma_control.destroy(conn); wl.release(conn)
Output_destroy(d, o) ==
    [d EXCEPT ![o.gamma_control] = [@ EXCEPT !.gamma_control = @ + 1],
              ![o.wl] = [@ EXCEPT !.wl = @ + 1]]

\* what the system does to one call of update_displayed_color:
\* alloc_fails: creating, sizing or mapping the shared-memory file fails;
\* fill_panics: a failure of the ramp generator is a panic.  The call
\* `colorramp_fill(r, g, b, self.ramp_size, self.color);` drops whatever
\* the generator returns, so its failure is either a panic or goes unseen.
Io(alloc_fails, fill_panics) ==
    [alloc_fails |-> alloc_fails, fill_panics |-> fill_panics]

Output_update_displayed_color_unsized(o, io) ==
    IF io.alloc_fails
    THEN [output |-> o, result |-> "err", pushed |-> FALSE, bytes |-> 0]
    ELSE IF ~colorramp_fill_ok(o.color) /\ io.fill_panics
    THEN [output |-> o, result |-> "panic", pushed |-> FALSE, bytes |-> 0]
    ELSE [output |-> [o EXCEPT !.color_changed = FALSE], result |-> "ok",
          pushed |-> TRUE, bytes |-> ramp_buffer_len(o.ramp_size)]

\* Output::update_displayed_color.  The result is the output afterwards, how
\* the call ended ("skip": ramp_size is 0, "ok": set_gamma issued, "err":
\* Err returned, "panic") and the size of the buffer handed to set_gamma.
Output_update_displayed_color(o, io) ==
    IF o.ramp_size = 0
    THEN [output |-> o, result |-> "skip", pushed |-> FALSE, bytes |-> 0]
    ELSE IF io.alloc_fails
    THEN [output |-> o, result |-> "err", pushed |-> FALSE, bytes |-> 0]
    ELSE IF ~colorramp_fill_ok(o.color) /\ io.fill_panics
    THEN [output |-> o, result |-> "panic", pushed |-> FALSE, bytes |-> 0]
    ELSE [output |-> [o EXCEPT !.color_changed = FALSE], result |-> "ok",
          pushed |-> TRUE, bytes |-> ramp_buffer_len(o.ramp_size)]

----------------------------------------------------------------------------
(* wayland.rs: WaylandState *)

U16_MODULUS == 65536

RECURSIVE SumTemp(_)
SumTemp(outs) ==
    IF outs = <<>> THEN 0
    ELSE (Head(outs).color.temp + SumTemp(Tail(outs))) % U16_MODULUS

RECURSIVE SumGamma(_)
SumGamma(outs) ==
    IF outs = <<>> THEN 0 ELSE Head(outs).color.gamma + SumGamma(Tail(outs))

RECURSIVE SumBrightness(_)
SumBrightness(outs) ==
    IF outs = <<>> THEN 0
    ELSE Head(outs).color.brightness + SumBrightness(Tail(outs))

\* WaylandState::color: the average color of all outputs, or the default.
\* The temperatures are summed in u16 (wrapping, as in a release build).
WaylandState_color(outs) ==
    IF outs = <<>> THEN DefaultColor
    ELSE [temp |-> SumTemp(outs) \div Len(outs),
          gamma |-> SumGamma(outs) \div Len(outs),
          brightness |-> SumBrightness(outs) \div Len(outs),
          inverted |-> \A i \in DOMAIN outs : outs[i].color.inverted]

\* WaylandState::set_temperature
WaylandState_set_temperature(outs, t) ==
    [i \in DOMAIN outs |->
        Output_set_color(outs[i], [outs[i].color EXCEPT !.temp = t])]

Live(outs) == {outs[i].reg_name : i \in DOMAIN outs}

Min(S) == CHOOSE x \in S : \A y \in S : x <= y

\* Iterator::position: the first index that matches, 0 for None
position_reg_name(outs, n) ==
    LET S == {i \in DOMAIN outs : outs[i].reg_name = n}
    IN IF S = {} THEN 0 ELSE Min(S)

position_gamma_control(outs, proxy) ==
    LET S == {i \in DOMAIN outs : outs[i].gamma_control = proxy}
    IN IF S = {} THEN 0 ELSE Min(S)

position_wl(outs, proxy) ==
    LET S == {i \in DOMAIN outs : outs[i].wl = proxy}
    IN IF S = {} THEN 0 ELSE Min(S)

remove_last(s, i) == SubSeq(s, 1, Len(s) - 1)

\* Vec::swap_remove: the last element takes the place of the removed one
swap_remove(s, i) ==
    IF i = Len(s) THEN SubSeq(s, 1, Len(s) - 1)
    ELSE [SubSeq(s, 1, Len(s) - 1) EXCEPT ![i] = s[Len(s)]]

----------------------------------------------------------------------------
(* wayland.rs: the callbacks.  A callback works on the record ws:          *)
(*   outputs, destroyed  the state it changes                              *)
(*   status              "ok", "err" (an Err is returned) or "panic"       *)
(*   sent                the set_gamma requests it issued                  *)

NewWs(outs, destr) ==
    [outputs |-> outs, destroyed |-> destr, status |-> "ok", sent |-> <<>>]

\* gamma_control.set_gamma(conn, file)
SetGamma(o) ==
    [name |-> o.reg_name, size |-> o.ramp_size, temp |-> o.color.temp,
     bytes |-> ramp_buffer_len(o.ramp_size)]

\* the effect of update_displayed_color on output i, with `unwrap` saying
\* whether the caller unwraps the result (a callback) or returns it
UpdateAt(ws, i, o, io, unwrap) ==
    LET r == Output_update_displayed_color(o, io)
    IN [ws EXCEPT
           !.outputs = [@ EXCEPT ![i] = r.output],
           !.status = IF r.result = "panic" \/ (r.result = "err" /\ unwrap)
                      THEN "panic"
                      ELSE IF r.result = "err" THEN "err" ELSE "ok",
           !.sent = IF r.pushed THEN Append(@, SetGamma(r.output)) ELSE @]

\* wl_registry_cb, Event::Global of a WlOutput
registry_global(ws, ev, io) ==
    LET o == Output_set_color(Output_bind(ev.name), WaylandState_color(ws.outputs))
        r == Output_update_displayed_color(o, io)
    IN IF r.result \in {"err", "panic"}
       THEN [ws EXCEPT !.status = "panic"]
       ELSE [ws EXCEPT !.outputs = Append(@, r.output),
                       !.sent = IF r.pushed THEN Append(@, SetGamma(r.output))
                                ELSE @]

registry_global_remove_keep_entry(ws, ev) ==
    LET i == position_reg_name(ws.outputs, ev.name)
    IN IF i # 0
       THEN [ws EXCEPT !.destroyed = Output_destroy(@, ws.outputs[i])]
       ELSE ws

\* wl_registry_cb, Event::GlobalRemove
registry_global_remove(ws, ev) ==
    LET i == position_reg_name(ws.outputs, ev.name)
    IN IF i # 0
       THEN [ws EXCEPT !.outputs = swap_remove(@, i),
                       !.destroyed = Output_destroy(@, ws.outputs[i])]
       ELSE ws

wl_registry_cb(ws, ev, io) ==
    IF ev.type = "Global" /\ ev.iface = "wl_output"
    THEN registry_global(ws, ev, io)
    ELSE IF ev.type = "GlobalRemove" THEN registry_global_remove(ws, ev)
    ELSE ws

\* gamma_control_cb, Event::GammaSize for the output at index i
gamma_size(ws, ev, i, io) ==
    UpdateAt(ws, i, [ws.outputs[i] EXCEPT !.ramp_size = ev.size], io, TRUE)

\* gamma_control_cb, Event::Failed for the output at index i
gamma_failed(ws, ev, i) ==
    [ws EXCEPT !.outputs = swap_remove(@, i),
               !.destroyed = Output_destroy(@, ws.outputs[i])]

gamma_control_cb_ignore_unknown(ws, ev, io) ==
    LET i == position_gamma_control(ws.outputs, ev.name)
    IN IF i = 0 THEN ws
       ELSE IF ev.type = "GammaSize" THEN gamma_size(ws, ev, i, io)
       ELSE gamma_failed(ws, ev, i)

gamma_control_cb(ws, ev, io) ==
    LET i == position_gamma_control(ws.outputs, ev.name)
    IN IF i = 0
       THEN \* .expect("Received event for unknown output")
            [ws EXCEPT !.status = "panic"]
       ELSE IF ev.type = "GammaSize" THEN gamma_size(ws, ev, i, io)
       ELSE gamma_failed(ws, ev, i)

\* wl_output_cb, Event::Name
wl_output_cb(ws, ev) ==
    LET i == position_wl(ws.outputs, ev.name)
    IN IF i = 0
       THEN [ws EXCEPT !.status = "panic"]
       ELSE [ws EXCEPT !.outputs[i].name = Some(ev.text)]

\* the output an event refers to, as the callbacks look it up
Target(outs, ev) ==
    LET i == IF ev.type = "GlobalRemove" THEN position_reg_name(outs, ev.name)
             ELSE IF ev.type \in {"GammaSize", "Failed"}
             THEN position_gamma_control(outs, ev.name)
             ELSE IF ev.type = "Name" THEN position_wl(outs, ev.name)
             ELSE 0
    IN IF i = 0 THEN None ELSE Some(outs[i])

\* Connection::dispatch_events hands one queued event to its callback
dispatch_one(ws, ev, io) ==
    IF ev.type \in {"Global", "GlobalRemove"}
    THEN wl_registry_cb(ws, ev, io)
    ELSE IF ev.type \in {"GammaSize", "Failed"}
    THEN gamma_control_cb(ws, ev, io)
    ELSE wl_output_cb(ws, ev)

----------------------------------------------------------------------------
(* wayland.rs: Wayland *)

\* The loop of Wayland::set_temperature over the outputs from index i on.
\* failAt counts down to the shared-memory allocation that fails (0: none);
\* `update_displayed_color(...)?` returns at the first Err.
RECURSIVE update_loop(_, _, _, _)
update_loop(ws, i, failAt, fill_panics) ==
    IF i > Len(ws.outputs) \/ ws.status # "ok" THEN ws
    ELSE IF ~ws.outputs[i].color_changed
    THEN update_loop(ws, i + 1, failAt, fill_panics)
    ELSE update_loop(
            UpdateAt(ws, i, ws.outputs[i], Io(failAt = 1, fill_panics), FALSE),
            i + 1, IF ws.outputs[i].ramp_size > 0 THEN failAt - 1 ELSE failAt,
            fill_panics)

\* Wayland::poll: recv_events moves what the socket holds into the queue;
\* nothing is dispatched
Wayland_poll(q, sock) == q \o sock

----------------------------------------------------------------------------
(* The environment: what the compositor, the coordinate stream, the clock  *)
(* and the sun-phase function may supply                                   *)

\* the globals the compositor announces while running are outputs
Ifaces == {"wl_output"}

Event(type, n, size, text, iface) ==
    [type |-> type, name |-> n, size |-> size, text |-> text, iface |-> iface]

\* registry names for which the client has created protocol objects
EverBound ==
    Live(outputs) \cup {n \in Names : destroyed[n].wl > 0}

\* items of the coordinate stream: Ok(Coordinates) or Err
CoordItems ==
    {[ok |-> TRUE, value |-> "A"], [ok |-> FALSE, value |-> ""]}

\* results of calculate_sun, in milliseconds: a morning twilight of two
\* seconds and an evening twilight of half a second
SunChoices ==
    {[dawn |-> 1000, sunrise |-> 3000, sunset |-> 5000, dusk |-> 5500]}

\* Ok(Sun), or None for Err (a timestamp out of range)
SunResults == {Some(s) : s \in SunChoices} \cup {None}

\* values of Timestamp::now()
Times == {0, 2000, 4000, 5200}

\* which shared-memory allocation of an update loop fails; 0: none
FailAts == 0..MaxOutputs

\* whether the ramp generator's failure is a panic matters only when an
\* output holds a temperature the generator rejects
FillPanics(outs) ==
    IF \E i \in DOMAIN outs : ~colorramp_fill_ok(outs[i].color)
    THEN BOOLEAN ELSE {FALSE}

\* what may happen to the update_displayed_color of one callback
Ios(ev) ==
    IF ev.type = "GammaSize"
    THEN {Io(a, f) : a \in BOOLEAN, f \in FillPanics(outputs)}
    ELSE {Io(FALSE, FALSE)}

CanEmit ==
    /\ pc \in {"start", "new", "select", "apply"}
    /\ Len(socket) + Len(queue) < MaxQueue

Emit(ev) ==
    /\ socket' = Append(socket, ev)
    /\ UNCHANGED <<pc, queue, outputs, destroyed, temp, coordinates, sun,
                   sent, handled, last, twice, applied, hasManager>>

CompositorGlobal ==
    /\ CanEmit
    /\ nextName <= MaxOutputs
    /\ \E iface \in Ifaces : Emit(Event("Global", nextName, 0, "", iface))
    /\ advertised' = advertised \cup {nextName}
    /\ nextName' = nextName + 1
    /\ UNCHANGED failedSent

CompositorGlobalRemove ==
    /\ CanEmit
    /\ \E n \in advertised :
        /\ Emit(Event("GlobalRemove", n, 0, "", ""))
        /\ advertised' = advertised \ {n}
    /\ UNCHANGED <<nextName, failedSent>>

\* events on the objects of an output the client has bound
CompositorGammaSize ==
    /\ CanEmit
    /\ \E n \in EverBound \cap advertised, size \in RampSizes :
        Emit(Event("GammaSize", n, size, "", ""))
    /\ UNCHANGED <<advertised, nextName, failedSent>>

CompositorFailed ==
    /\ CanEmit
    /\ \E n \in EverBound \ failedSent :
        /\ Emit(Event("Failed", n, 0, "", ""))
        /\ failedSent' = failedSent \cup {n}
    /\ UNCHANGED <<advertised, nextName>>

CompositorName ==
    /\ CanEmit
    /\ \E n \in EverBound \cap advertised : Emit(Event("Name", n, 0, "DP-1", ""))
    /\ UNCHANGED <<advertised, nextName, failedSent>>

Compositor ==
    \/ CompositorGlobal
    \/ CompositorGlobalRemove
    \/ CompositorGammaSize
    \/ CompositorFailed
    \/ CompositorName

----------------------------------------------------------------------------
(* main.rs: main *)

\* wake: the branch of the select! that fired; item_ok: whether the item
\* the coordinate stream yielded was Ok; computed: the temperature the
\* iteration computed
NoStep == [wake |-> "none", item_ok |-> TRUE, computed |-> None]

\* no function has been applied on its own
NotApplied == [fn |-> "none", args |-> <<>>, result |-> <<>>]

NoTwice ==
    [t |-> 0, pre |-> <<>>, first |-> "none", first_sent |-> <<>>,
     mid |-> <<>>, second |-> "none", second_sent |-> <<>>]

Init ==
    /\ pc = "start"
    /\ socket = <<>>
    /\ queue = <<>>
    /\ outputs = <<>>
    /\ destroyed = [n \in Names |-> [gamma_control |-> 0, wl |-> 0]]
    /\ advertised = {}
    /\ failedSent = {}
    /\ nextName = 1
    /\ temp = INITIAL_TEMP
    /\ coordinates = None
    /\ sun = None
    /\ sent = <<>>
    /\ handled = None
    /\ last = NoStep
    /\ twice = NoTwice
    /\ applied = NotApplied
    /\ hasManager \in BOOLEAN

bind_singleton_unchecked(advertises) == TRUE

\* `let Ok(gamma_manager) = conn.bind_singleton(1) else { bail!(..) }`:
\* the manager is bound exactly if the compositor advertises it
bind_singleton(advertises) == advertises

\* main calls Wayland::new: the roundtrip receives the globals announced
\* so far and bind_singleton needs the gamma-control manager; what follows
\* is dispatch_events
MainStart ==
    /\ pc = "start"
    /\ pc' = IF bind_singleton(hasManager) THEN "new" ELSE "exited"
    /\ queue' = Wayland_poll(queue, socket)
    /\ socket' = <<>>
    /\ sent' = <<>>
    /\ handled' = None
    /\ twice' = NoTwice
    /\ UNCHANGED <<outputs, destroyed, advertised, failedSent, nextName, temp,
                   coordinates, sun, last,
                   applied, hasManager>>

\* dispatch_events, in Wayland::new and in Wayland::set_temperature: the
\* callback of the first queued event runs
Dispatch ==
    /\ pc \in {"new", "apply"}
    /\ queue # <<>>
    /\ \E io \in Ios(Head(queue)) :
        \E ws \in {dispatch_one(NewWs(outputs, destroyed), Head(queue), io)} :
           /\ pc' = IF ws.status = "ok" THEN pc ELSE "panicked"
           /\ outputs' = ws.outputs
           /\ destroyed' = ws.destroyed
           /\ sent' = ws.sent
    /\ handled' = Some([event |-> Head(queue),
                        target |-> Target(outputs, Head(queue))])
    /\ queue' = Tail(queue)
    /\ twice' = NoTwice
    /\ UNCHANGED <<socket, advertised, failedSent, nextName, temp, coordinates,
                   sun, last,
                   applied, hasManager>>

\* the end of Wayland::new, then `location_coordinates_stream().await?`
FinishNew ==
    /\ pc = "new"
    /\ queue = <<>>
    /\ \E geoclue_ok \in BOOLEAN : pc' = IF geoclue_ok THEN "select" ELSE "exited"
    /\ sent' = <<>>
    /\ handled' = None
    /\ twice' = NoTwice
    /\ UNCHANGED <<socket, queue, outputs, destroyed, advertised, failedSent,
                   nextName, temp, coordinates, sun, last,
                   applied, hasManager>>

coordinates_known_always(c) == TRUE

\* `let Some(..) = coordinates else { continue }`
coordinates_known(c) == c # None

temperature_changed_on_rise(new_temp, old_temp) == new_temp > old_temp

\* `if new_temp != temp`
temperature_changed(new_temp, old_temp) == new_temp # old_temp

Wakes == {"wayland", "coords", "timer"}

NoItem == [ok |-> TRUE, value |-> ""]

Selected_ignoring_errors(wake, item) ==
    [queue |-> IF wake = "wayland" THEN Wayland_poll(queue, socket) ELSE queue,
     socket |-> IF wake = "wayland" THEN <<>> ELSE socket,
     coordinates |-> IF wake = "coords" /\ item.ok THEN Some(item.value)
                     ELSE coordinates,
     err |-> FALSE]

\* the select!: what the fired branch leaves behind
Selected(wake, item) ==
    [queue |-> IF wake = "wayland" THEN Wayland_poll(queue, socket) ELSE queue,
     socket |-> IF wake = "wayland" THEN <<>> ELSE socket,
     coordinates |-> IF wake = "coords" /\ item.ok THEN Some(item.value)
                     ELSE coordinates,
     err |-> wake = "coords" /\ ~item.ok]

\* One iteration of the loop up to the call of wayland.set_temperature: the
\* select!, then the recomputation.  The result holds the new value of
\* every variable the iteration may change; with pc "apply" the iteration
\* goes on in Wayland::set_temperature, whose first statement
\* self.state.set_temperature(temperature) is done here.
Iteration(wake, item, now, sunres) ==
    LET sel == Selected(wake, item)
        base == [pc |-> "select", socket |-> sel.socket, queue |-> sel.queue,
                 outputs |-> outputs, temp |-> temp,
                 coordinates |-> sel.coordinates, sun |-> sun,
                 last |-> [NoStep EXCEPT !.wake = wake, !.item_ok = item.ok]]
    IN IF sel.err
       THEN \* `new_coordinates?`
            [base EXCEPT !.pc = "exited"]
       ELSE IF ~coordinates_known(sel.coordinates)
       THEN base
       ELSE IF sunres = None
       THEN \* `calculate_sun(..)?`
            [base EXCEPT !.pc = "exited"]
       ELSE LET new_sun == Unwrap(sunres)
                new_temp == get_temperature(now, new_sun)
            IN IF temperature_changed(new_temp, temp)
               THEN [base EXCEPT
                        !.pc = "apply",
                        !.outputs = WaylandState_set_temperature(@, new_temp),
                        !.temp = new_temp,
                        !.sun = Some(new_sun),
                        !.last = [@ EXCEPT !.computed = Some(new_temp)]]
               ELSE [base EXCEPT
                        !.sun = Some(new_sun),
                        !.last = [@ EXCEPT !.computed = Some(new_temp)]]

\* the clock and the sun-phase function are read only when the iteration
\* recomputes
Recomputes(wake, item) ==
    /\ ~Selected(wake, item).err
    /\ coordinates_known(Selected(wake, item).coordinates)

Iterate ==
    /\ pc = "select"
    /\ \E wake \in Wakes :
       \E item \in IF wake = "coords" THEN CoordItems ELSE {NoItem} :
       \E sunres \in IF Recomputes(wake, item) THEN SunResults ELSE {None} :
       \E now \in IF sunres # None THEN Times ELSE {0} :
        /\ wake = "wayland" => socket # <<>>
        /\ \E r \in {Iteration(wake, item, now, sunres)} :
              /\ pc' = r.pc
              /\ socket' = r.socket
              /\ queue' = r.queue
              /\ outputs' = r.outputs
              /\ temp' = r.temp
              /\ coordinates' = r.coordinates
              /\ sun' = r.sun
              /\ last' = r.last
    /\ sent' = <<>>
    /\ handled' = None
    /\ twice' = NoTwice
    /\ UNCHANGED <<destroyed, advertised, failedSent, nextName,
                   applied, hasManager>>

\* the rest of Wayland::set_temperature once dispatch_events has returned:
\* the loop over the outputs and the flush; main propagates an Err with `?`
FinishApply ==
    /\ pc = "apply"
    /\ queue = <<>>
    /\ \E failAt \in FailAts, fill_panics \in FillPanics(outputs) :
        \E ws \in {update_loop(NewWs(outputs, destroyed), 1, failAt, fill_panics)} :
           /\ pc' = IF ws.status = "panic" THEN "panicked"
                    ELSE IF ws.status = "err" THEN "exited"
                    ELSE "select"
           /\ outputs' = ws.outputs
           /\ sent' = ws.sent
    /\ handled' = None
    /\ twice' = NoTwice
    /\ UNCHANGED <<socket, queue, destroyed, advertised, failedSent, nextName,
                   temp, coordinates, sun, last,
                   applied, hasManager>>

Next ==
    \/ Compositor
    \/ MainStart
    \/ Dispatch
    \/ FinishNew
    \/ Iterate
    \/ FinishApply

Spec == Init /\ [][Next]_vars

----------------------------------------------------------------------------
(* The interface of Wayland driven directly: after main's start, poll and  *)
(* set_temperature are called in any order with any temperature.           *)

ApiTemps == {4000, 6500}

ApiPoll ==
    /\ pc = "select"
    /\ socket # <<>>
    /\ queue' = Wayland_poll(queue, socket)
    /\ socket' = <<>>
    /\ sent' = <<>>
    /\ handled' = None
    /\ twice' = NoTwice
    /\ UNCHANGED <<pc, outputs, destroyed, advertised, failedSent, nextName,
                   temp, coordinates, sun, last,
                   applied, hasManager>>

\* Wayland::set_temperature(t) up to dispatch_events
ApiSetTemperature ==
    /\ pc = "select"
    /\ \E t \in ApiTemps : outputs' = WaylandState_set_temperature(outputs, t)
    /\ pc' = "apply"
    /\ sent' = <<>>
    /\ handled' = None
    /\ twice' = NoTwice
    /\ UNCHANGED <<socket, queue, destroyed, advertised, failedSent, nextName,
                   temp, coordinates, sun, last,
                   applied, hasManager>>

\* Wayland::set_temperature with nothing queued: dispatch_events finds no
\* event
Wayland_set_temperature_idle(outs, destr, t, faults) ==
    update_loop(NewWs(WaylandState_set_temperature(outs, t), destr), 1,
                faults.failAt, faults.fill_panics)

\* what may happen to the allocations and the ramps of one such call
LoopIos(outs, t) ==
    [failAt : FailAts,
     fill_panics : FillPanics(WaylandState_set_temperature(outs, t))]

\* set_temperature(t) called twice in a row while the queue is empty, so
\* that no event is dispatched in either call; the caller goes on after Err
ApiSetTemperatureTwice ==
    /\ pc = "select"
    /\ queue = <<>>
    /\ \E t \in ApiTemps :
        \E io1 \in LoopIos(outputs, t), io2 \in LoopIos(outputs, t) :
        \E ws1 \in {Wayland_set_temperature_idle(outputs, destroyed, t, io1)} :
        \E ws2 \in {Wayland_set_temperature_idle(ws1.outputs, ws1.destroyed, t,
                                                 io2)} :
           /\ pc' = IF "panic" \in {ws1.status, ws2.status} THEN "panicked"
                    ELSE "select"
           /\ outputs' = ws2.outputs
           /\ sent' = ws1.sent \o ws2.sent
           /\ twice' = [t |-> t, pre |-> outputs, first |-> ws1.status,
                        first_sent |-> ws1.sent, mid |-> ws1.outputs,
                        second |-> ws2.status, second_sent |-> ws2.sent]
    /\ handled' = None
    /\ UNCHANGED <<socket, queue, destroyed, advertised, failedSent, nextName,
                   temp, coordinates, sun, last,
                   applied, hasManager>>

NextApi ==
    \/ Compositor
    \/ MainStart
    \/ Dispatch
    \/ FinishNew
    \/ FinishApply
    \/ ApiPoll
    \/ ApiSetTemperature
    \/ ApiSetTemperatureTwice

SpecApi == Init /\ [][NextApi]_vars

----------------------------------------------------------------------------
(* The pure functions applied on their own, once, to arguments drawn from  *)
(* the sets below; the program's own state stays as it is initially.       *)

Applied(fn, args, result) == [fn |-> fn, args |-> args, result |-> result]

program_vars ==
    <<pc, socket, queue, outputs, destroyed, advertised, failedSent, nextName,
      temp, coordinates, sun, sent, handled, last, twice, hasManager>>

\* lengths of a twilight window, in milliseconds: none, half a second, two
\* seconds, two and a half seconds, one hour
FnWindows == {0, 500, 2000, 2500, 3600000}

\* sun times with a day of five seconds between the two twilight windows
FnSuns ==
    {[dawn |-> 1000, sunrise |-> 1000 + w1, sunset |-> 6000 + w1,
      dusk |-> 6000 + w1 + w2] : w1 \in FnWindows, w2 \in FnWindows}

\* time elapsed since the start of a window, in milliseconds
FnOffsets == {0, 1, 200, 500, 1000, 1500, 2000, 2200, 1800000, 3599999, 3600000}

\* timestamps before dawn, and at the offsets into either twilight window
FnTimes(s) ==
    {0} \cup {s.dawn + e : e \in FnOffsets} \cup {s.sunset + e : e \in FnOffsets}

ApplyGetTemperature ==
    /\ applied.fn = "none"
    /\ \E s \in FnSuns : \E now \in FnTimes(s) :
        applied' = Applied("get_temperature", <<now, s>>, get_temperature(now, s))
    /\ UNCHANGED program_vars

\* the two (temp_start, temp_stop) pairs get_temperature passes
FnTempPairs == {<<LOW_TEMP, HIGH_TEMP>>, <<HIGH_TEMP, LOW_TEMP>>}

ApplyInterpolateTemperature ==
    /\ applied.fn = "none"
    /\ \E w \in FnWindows, e \in FnOffsets, p \in FnTempPairs :
        applied' = Applied("interpolate_temperature",
                           <<1000 + e, 1000, 1000 + w, p[1], p[2]>>,
                           interpolate_temperature(1000 + e, 1000, 1000 + w,
                                                   p[1], p[2]))
    /\ UNCHANGED program_vars

\* the most outputs WaylandState::color is applied to
MaxFnOutputs == 11

FnTemps == {MIN_RAMP_TEMP, LOW_TEMP, HIGH_TEMP, MAX_RAMP_TEMP}

\* the inverted flags of n outputs: none set, all set, all but the first
FnInverted == {"none", "all", "rest"}

\* n outputs at temperature t (the first at t1) with the flags of pattern inv
FnOutputs(n, t1, t, inv) ==
    [i \in 1..n |->
        [Output_bind(i) EXCEPT
            !.color = [DefaultColor EXCEPT
                          !.temp = IF i = 1 THEN t1 ELSE t,
                          !.inverted = \/ inv = "all"
                                       \/ inv = "rest" /\ i > 1]]]

RECURSIVE TempTotal(_)
TempTotal(outs) ==
    IF outs = <<>> THEN 0 ELSE Head(outs).color.temp + TempTotal(Tail(outs))

\* `color.temp + output_color.temp` in u16 overflows
SumTempOverflows(outs) == TempTotal(outs) >= U16_MODULUS

\* WaylandState::color applied to a list of outputs.  An overflowing u16
\* sum panics in a build with overflow checks and wraps in one without;
\* the result is None for the panic.
ApplyColor ==
    /\ applied.fn = "none"
    /\ \E n \in 0..MaxFnOutputs, t1 \in FnTemps, t \in FnTemps, inv \in FnInverted,
          overflow_checks \in BOOLEAN :
        LET outs == FnOutputs(n, t1, t, inv)
        IN applied' = Applied("WaylandState_color", <<outs>>,
                              IF overflow_checks /\ SumTempOverflows(outs)
                              THEN None
                              ELSE Some(WaylandState_color(outs)))
    /\ UNCHANGED program_vars

\* the longest ramp that is filled for every temperature
MaxRampLen == 4

\* temperatures (u16) handed to the ramp generator: around both ends of
\* the accepted range and around 6500, and the middle of every table step
FnRampTemps ==
    {0, 999, U16_MAX} \cup (MIN_RAMP_TEMP..1200) \cup (6400..6700)
        \cup (9900..10101)
        \cup {MIN_RAMP_TEMP + TEMP_STEP * k + 50 : k \in 0..89}

\* temperatures for which a ramp of RampSizes' 256 samples is filled too
FnLongRampTemps == {999, MIN_RAMP_TEMP, 6500, 6550, MAX_RAMP_TEMP, 10001}

FnRampLens == (1..MaxRampLen) \cup (RampSizes \ {0})

ApplyFindColor ==
    /\ applied.fn = "none"
    /\ \E t \in FnRampTemps :
        applied' = Applied("find_interpolated_temperature_color", <<t>>,
                           find_interpolated_temperature_color(t))
    /\ UNCHANGED program_vars

\* a buffer of n samples that nothing has been written to yet: every
\* sample holds 65535, which is not what the first sample of a ramp gets
FreshBuffer(n) == [k \in 1..n |-> U16_MAX]

ApplyFillColorramp ==
    /\ applied.fn = "none"
    /\ \E n \in FnRampLens :
       \E t \in IF n <= MaxRampLen THEN FnRampTemps ELSE FnLongRampTemps :
        applied' = Applied("fill_colorramp", <<n, t>>,
                           fill_colorramp(FreshBuffer(n), FreshBuffer(n),
                                          FreshBuffer(n), n, t))
    /\ UNCHANGED program_vars

NextFn ==
    \/ ApplyGetTemperature
    \/ ApplyInterpolateTemperature
    \/ ApplyColor
    \/ ApplyFindColor
    \/ ApplyFillColorramp

SpecFn == Init /\ [][NextFn]_vars

----------------------------------------------------------------------------
(* Steps, as the properties below recognise them *)

\* dispatch_events runs the callback of the first queued event
DispatchStep ==
    /\ pc \in {"new", "apply"}
    /\ queue # <<>>
    /\ queue' = Tail(queue)

\* the loop over the outputs at the end of Wayland::set_temperature
UpdateLoopStep ==
    /\ pc = "apply"
    /\ queue = <<>>
    /\ pc' # "apply"

\* one pass through main's loop, up to the call of set_temperature (under
\* Spec; the compositor's steps are the ones that lengthen the socket)
IterateStep ==
    /\ pc = "select"
    /\ Len(socket') <= Len(socket)

\* the number of set_gamma requests in reqs for the output named n
PushCount(reqs, n) == Cardinality({k \in DOMAIN reqs : reqs[k].name = n})

\* the outputs other than the one at index i, with their states
Others(outs, i) == {outs[k] : k \in DOMAIN outs \ {i}}

AllOutputs(outs) == {outs[k] : k \in DOMAIN outs}

----------------------------------------------------------------------------
(* C1 *)

\* C1 (as claimed): after an iteration of the event loop that was woken by
\* the compositor socket becoming readable, the events received have been
\* dispatched: back at the select!, the event queue is empty.
C1_ReadinessDispatches ==
    (pc = "select" /\ last.wake = "wayland") => queue = <<>>

----------------------------------------------------------------------------
(* C2 *)

\* C2 (as claimed): when set_temperature runs its loop over outputs that all
\* hold a temperature the ramp generator accepts, the process keeps running
\* and at most the one output whose buffer allocation failed goes without
\* the set_gamma request it was due (dirty, ramp_size > 0); and a GammaSize
\* event for a live output never stops the process either.
C2_PartialFailureContinues ==
    [][/\ (UpdateLoopStep
           /\ \A i \in DOMAIN outputs : colorramp_fill_ok(outputs[i].color))
          => /\ pc' = "select"
             /\ Cardinality({i \in DOMAIN outputs :
                    /\ outputs[i].color_changed
                    /\ outputs[i].ramp_size > 0
                    /\ PushCount(sent', outputs[i].reg_name) = 0}) <= 1
       /\ (DispatchStep
           /\ Head(queue).type = "GammaSize"
           /\ Target(outputs, Head(queue)) # None
           /\ \A i \in DOMAIN outputs : colorramp_fill_ok(outputs[i].color))
          => pc' = pc
      ]_vars

----------------------------------------------------------------------------
(* C3 *)

\* C3 (as claimed): two set_temperature(T) calls in a row, no event
\* dispatched, issue exactly one set_gamma request for every output with
\* ramp_size > 0: one in the first call, none in the second.
C3_ExactlyOnePush ==
    twice.first # "none" =>
        \A i \in DOMAIN twice.pre :
            twice.pre[i].ramp_size > 0 =>
                /\ PushCount(twice.first_sent, twice.pre[i].reg_name) = 1
                /\ PushCount(twice.second_sent, twice.pre[i].reg_name) = 0

\* C3 (amended): two set_temperature(T) calls in a row, no event dispatched,
\* issue at most one set_gamma request in total for an output with
\* ramp_size > 0.  If the first call returns Ok, it pushes one ramp for the
\* output exactly if the output was dirty or showed another temperature
\* than T, it leaves the output clean at T, and the second call pushes
\* nothing for it.
C3_IdempotentPush ==
    twice.first # "none" =>
        \A i \in DOMAIN twice.pre :
            LET o == twice.pre[i]
                n == o.reg_name
            IN o.ramp_size > 0 =>
                /\ PushCount(twice.first_sent \o twice.second_sent, n) <= 1
                /\ twice.first = "ok" =>
                    /\ PushCount(twice.first_sent, n)
                         = IF o.color_changed \/ o.color.temp # twice.t
                           THEN 1 ELSE 0
                    /\ ~twice.mid[i].color_changed
                    /\ twice.mid[i].color.temp = twice.t
                    /\ PushCount(twice.second_sent, n) = 0

\* two calls in a row on an Active output that showed another temperature:
\* the first pushed its ramp, the second pushed nothing
C3_Witness ==
    /\ twice.first = "ok"
    /\ twice.second = "ok"
    /\ \E i \in DOMAIN twice.pre :
        /\ twice.pre[i].ramp_size > 0
        /\ twice.pre[i].color.temp # twice.t
        /\ PushCount(twice.first_sent, twice.pre[i].reg_name) = 1
        /\ twice.second_sent = <<>>

----------------------------------------------------------------------------
(* C4 *)

\* what C4 says of the dispatch of a GammaSize event for a live output;
\* may_fail admits the outcome of a failed buffer allocation
GammaSizeOutcome(may_fail) ==
    (DispatchStep
     /\ Head(queue).type = "GammaSize"
     /\ Target(outputs, Head(queue)) # None)
    => LET ev == Head(queue)
           i == position_gamma_control(outputs, ev.name)
       IN IF ev.size = 0
          THEN /\ pc' = pc
               /\ outputs'[i].ramp_size = 0
               /\ sent' = <<>>
          ELSE \/ /\ pc' = pc
                  /\ outputs'[i].ramp_size = ev.size
                  /\ Len(sent') = 1
                  /\ sent'[1].name = outputs[i].reg_name
                  /\ sent'[1].size = ev.size
                  /\ sent'[1].bytes = ev.size * 2 * 3
               \/ /\ may_fail
                  /\ pc' = "panicked"
                  /\ sent' = <<>>

----------------------------------------------------------------------------
(* C5 *)

\* C5: dispatching a GlobalRemove that names a live output whose ramp_size
\* is still 0 does not panic, issues one destroy of its gamma control and
\* one release of its output handle, and removes it from the outputs: no
\* live output has that registry name afterwards and every other output is
\* still there, unchanged.
C5_RemoveWhileAwaiting ==
    [][(DispatchStep
        /\ Head(queue).type = "GlobalRemove"
        /\ Target(outputs, Head(queue)) # None
        /\ Unwrap(Target(outputs, Head(queue))).ramp_size = 0)
       => LET n == Head(queue).name
              i == position_reg_name(outputs, n)
          IN /\ pc' = pc
             /\ destroyed'[n] = [gamma_control |-> destroyed[n].gamma_control + 1,
                                 wl |-> destroyed[n].wl + 1]
             /\ \A m \in Names \ {n} : destroyed'[m] = destroyed[m]
             /\ n \notin Live(outputs')
             /\ Len(outputs') = Len(outputs) - 1
             /\ AllOutputs(outputs') = Others(outputs, i)
      ]_vars

\* an output awaiting its ramp size has been removed by GlobalRemove while
\* another output stays live
C5_Witness ==
    /\ pc \in {"new", "apply"}
    /\ handled # None
    /\ Unwrap(handled).event.type = "GlobalRemove"
    /\ Unwrap(handled).target # None
    /\ Unwrap(Unwrap(handled).target).ramp_size = 0
    /\ Unwrap(handled).event.name \notin Live(outputs)
    /\ destroyed[Unwrap(handled).event.name] = [gamma_control |-> 1, wl |-> 1]
    /\ outputs # <<>>

----------------------------------------------------------------------------
(* C6 *)

\* the handles of every output are released at most once, together, and an
\* output whose handles are released is not live
ReleasedAtMostOnce ==
    \A n \in Names :
        /\ destroyed[n].gamma_control <= 1
        /\ destroyed[n].wl = destroyed[n].gamma_control
        /\ destroyed[n].wl = 1 => n \notin Live(outputs)

\* C6: an output is destroyed exactly once, by the first dispatched of
\* GlobalRemove for its registry name and Failed for its gamma control:
\* that event releases its two handles and takes it, and nothing else, out
\* of the outputs; the later event releases nothing and removes nothing;
\* and no other step releases a handle.
C6_DestroyedOnce ==
    /\ []ReleasedAtMostOnce
    /\ [][/\ (DispatchStep /\ Head(queue).type \in {"GlobalRemove", "Failed"})
             => LET n == Head(queue).name
                IN IF n \in Live(outputs)
                   THEN /\ destroyed[n] = [gamma_control |-> 0, wl |-> 0]
                        /\ destroyed'[n] = [gamma_control |-> 1, wl |-> 1]
                        /\ \A m \in Names \ {n} : destroyed'[m] = destroyed[m]
                        /\ Live(outputs') = Live(outputs) \ {n}
                        /\ Len(outputs') = Len(outputs) - 1
                   ELSE /\ destroyed' = destroyed
                        /\ outputs' = outputs
          /\ destroyed' # destroyed
             => DispatchStep /\ Head(queue).type \in {"GlobalRemove", "Failed"}
         ]_vars

\* an output was destroyed on its Failed event, and the GlobalRemove that
\* came later has been dispatched too, with another output live
C6_Witness ==
    /\ handled # None
    /\ Unwrap(handled).event.type = "GlobalRemove"
    /\ Unwrap(handled).target = None
    /\ Unwrap(handled).event.name \in failedSent
    /\ destroyed[Unwrap(handled).event.name] = [gamma_control |-> 1, wl |-> 1]
    /\ outputs # <<>>

----------------------------------------------------------------------------
(* C7 *)

\* the dispatched event refers to an output that is not live
StaleEvent ==
    /\ DispatchStep
    /\ Head(queue).type \in {"GammaSize", "Failed", "Name", "GlobalRemove"}
    /\ Target(outputs, Head(queue)) = None

----------------------------------------------------------------------------
(* C8 *)

\* C8: every loop iteration that leaves the select! with coordinates known
\* and does not end the process on an error, whatever woke it, computes the
\* sun times and the target temperature; it goes on to call
\* set_temperature exactly if the computed temperature differs from the
\* stored one, and it stores the computed temperature.
C8_RecomputeCompareAct ==
    [][(IterateStep /\ coordinates' # None /\ pc' # "exited")
       => /\ sun' # None
          /\ last'.computed # None
          /\ (pc' = "apply") <=> (Unwrap(last'.computed) # temp)
          /\ temp' = Unwrap(last'.computed)
      ]_vars

\* the timer alone woke an iteration that computed a new temperature and
\* went on to apply it
C8_Witness ==
    /\ pc = "apply"
    /\ last.wake = "timer"
    /\ last.computed = Some(temp)
    /\ temp # INITIAL_TEMP
    /\ coordinates # None

----------------------------------------------------------------------------
(* C9 *)

\* C9: while no coordinates have been received, no iteration has computed
\* sun times or a temperature or called set_temperature, and the stored
\* temperature and sun times have their initial values.
C9_NothingWithoutCoordinates ==
    coordinates = None =>
        /\ temp = INITIAL_TEMP
        /\ sun = None
        /\ last.computed = None
        /\ pc # "apply"

\* the loop has been woken by the compositor, events are waiting, and
\* coordinates are still unknown
C9_Witness ==
    /\ coordinates = None
    /\ pc = "select"
    /\ last.wake = "wayland"
    /\ queue # <<>>

----------------------------------------------------------------------------
(* C10 *)

\* C10 (as claimed): every temperature the scheduler computes lies in
\* [4000, 6500], and every temperature an output holds for the ramp
\* generator lies in [1000, 10000].
C10_TemperatureInRange ==
    /\ last.computed # None
        => Unwrap(last.computed) \in LOW_TEMP..HIGH_TEMP
    /\ temp \in LOW_TEMP..HIGH_TEMP
    /\ \A i \in DOMAIN outputs :
        outputs[i].color.temp \in MIN_RAMP_TEMP..MAX_RAMP_TEMP

----------------------------------------------------------------------------
(* C11 *)

\* get_temperature has been applied to now and s
GotTemperature == applied.fn = "get_temperature"

ArgNow == applied.args[1]
ArgSun == applied.args[2]

\* C11 (as claimed): for dawn <= now < sunrise with sunrise - dawn a
\* positive whole number of seconds, get_temperature returns
\* 4000 + 2500 * (now - dawn) / (sunrise - dawn) truncated to an integer,
\* and it returns 6500 for sunrise <= now < sunset.
C11_MorningInterpolation ==
    GotTemperature =>
        LET w == ArgSun.sunrise - ArgSun.dawn
            e == ArgNow - ArgSun.dawn
        IN /\ (e >= 0 /\ e < w /\ w % MILLIS_PER_SECOND = 0)
              => applied.result
                   = LOW_TEMP + (((HIGH_TEMP - LOW_TEMP) \div 100) * e) \div (w \div 100)
           /\ (ArgSun.sunrise <= ArgNow /\ ArgNow < ArgSun.sunset)
              => applied.result = HIGH_TEMP

----------------------------------------------------------------------------
(* C12 *)

----------------------------------------------------------------------------
(* C13 *)

\* C13 (as claimed): for sunset < now < dusk, get_temperature returns a
\* temperature strictly greater than 4000 and strictly less than 6500.
C13_EveningStrictlyBetween ==
    (GotTemperature /\ ArgSun.sunset < ArgNow /\ ArgNow < ArgSun.dusk)
    => (applied.result > LOW_TEMP /\ applied.result < HIGH_TEMP)

----------------------------------------------------------------------------
(* C14 *)

\* C14 (as claimed): for a non-empty list of outputs WaylandState::color
\* returns the integer average of their temperatures, the means of their
\* gamma and brightness and the AND of their inverted flags; for no outputs
\* it returns the default profile; and when all outputs have the same
\* temperature T it returns T, for any number of outputs.
C14_AverageColor ==
    applied.fn = "WaylandState_color" =>
        LET outs == applied.args[1]
            n == Len(outs)
        IN /\ applied.result # None
           /\ outs = <<>> => Unwrap(applied.result) = DefaultColor
           /\ outs # <<>> =>
                LET c == Unwrap(applied.result)
                IN /\ c.temp = TempTotal(outs) \div n
                   /\ c.gamma * n = SumGamma(outs)
                   /\ c.brightness * n = SumBrightness(outs)
                   /\ c.inverted = (\A k \in 1..n : outs[k].color.inverted)
                   /\ (\A k \in 1..n : outs[k].color.temp = outs[1].color.temp)
                      => c.temp = outs[1].color.temp

----------------------------------------------------------------------------
(* C15 *)

FoundColor == applied.fn = "find_interpolated_temperature_color"
FilledRamp == applied.fn = "fill_colorramp"

InRampRange(t) == t >= 1000 /\ t <= 10000

\* C15: for a temperature below 1000 or above 10000 fill_colorramp returns
\* an error and leaves every sample of the three buffers as it was; for a
\* temperature in [1000, 10000] it succeeds, and both indices of the tint
\* lookup are inside the 92-entry table.
C15_RangeChecked ==
    /\ FilledRamp =>
        LET n == applied.args[1]
            t == applied.args[2]
        IN /\ applied.result.ok <=> InRampRange(t)
           /\ ~InRampRange(t) =>
                /\ applied.result.r = FreshBuffer(n)
                /\ applied.result.g = FreshBuffer(n)
                /\ applied.result.b = FreshBuffer(n)
    /\ FoundColor =>
        LET t == applied.args[1]
        IN /\ applied.result.ok <=> InRampRange(t)
           /\ applied.result.ok =>
                /\ applied.result.current \in 0..90
                /\ applied.result.next = applied.result.current + 1
                /\ applied.result.next <= 91
                /\ Len(COLOR_FOR_TEMPERATURE) = 92

\* fill_colorramp has been applied to 10001 and has returned an error
\* without touching the buffers
C15_Witness ==
    /\ FilledRamp
    /\ applied.args[2] = 10001
    /\ ~applied.result.ok
    /\ applied.result.r = FreshBuffer(applied.args[1])

----------------------------------------------------------------------------
(* C16 *)

Abs(x) == IF x < 0 THEN 0 - x ELSE x

\* channel value v lies between the values lo and hi of the two entries
Between(v, lo, hi) == (lo <= v /\ v <= hi) \/ (hi <= v /\ v <= lo)

\* v is lo moved toward hi by rem hundredths of their distance, to within
\* one unit of the table's last decimal
Proportional(v, lo, hi, rem) ==
    Abs((v - lo) * 100 - (hi - lo) * rem) <= 100

\* C16 (as claimed): for a temperature in [1000, 10000] each channel of the
\* tint lies between the values of table entries floor((t - 1000) / 100)
\* and the next, equals the lower entry's when t is a multiple of 100, and
\* is the lower entry's moved toward the upper entry's by (t mod 100) / 100
\* of their distance.
C16_TintInterpolated ==
    (FoundColor /\ InRampRange(applied.args[1])) =>
        LET t == applied.args[1]
            lo == COLOR_FOR_TEMPERATURE[(t - 1000) \div 100 + 1]
            hi == COLOR_FOR_TEMPERATURE[(t - 1000) \div 100 + 2]
            c == applied.result.color
        IN /\ Between(c.r, lo.r, hi.r)
           /\ Between(c.g, lo.g, hi.g)
           /\ Between(c.b, lo.b, hi.b)
           /\ t % 100 = 0 => c = lo
           /\ Proportional(c.r, lo.r, hi.r, t % 100)
           /\ Proportional(c.g, lo.g, hi.g, t % 100)
           /\ Proportional(c.b, lo.b, hi.b, t % 100)

----------------------------------------------------------------------------
(* C17 *)

\* the samples of one channel never decrease, start at 0 and fit in u16
RampMonotone(ch) ==
    /\ ch[1] = 0
    /\ \A k \in DOMAIN ch : ch[k] >= 0 /\ ch[k] <= 65535
    /\ \A k \in 1..(Len(ch) - 1) : ch[k] <= ch[k + 1]

\* C17: for a ramp of n >= 2 samples and a temperature in [1000, 10000],
\* each of the sequences r, g, b that fill_colorramp writes is
\* non-decreasing in the sample index, starts at 0 and never exceeds 65535.
C17_RampMonotone ==
    (FilledRamp /\ applied.args[1] >= 2 /\ InRampRange(applied.args[2])) =>
        /\ applied.result.ok
        /\ RampMonotone(applied.result.r)
        /\ RampMonotone(applied.result.g)
        /\ RampMonotone(applied.result.b)

\* a ramp of 256 samples has been filled for 6500 K; its red channel
\* rises from 0 to 65535
C17_Witness ==
    /\ FilledRamp
    /\ applied.args = <<256, 6500>>
    /\ applied.result.ok
    /\ applied.result.r[1] = 0
    /\ applied.result.r[256] = 65535
    /\ applied.result.b[256] > applied.result.b[2]

----------------------------------------------------------------------------
(* C18 *)

\* no handle of any output has been bound: the list is empty and nothing
\* has been destroyed or released
NothingBound ==
    /\ outputs = <<>>
    /\ \A n \in Names : destroyed[n].gamma_control = 0 /\ destroyed[n].wl = 0

\* C18: with a compositor that does not advertise the gamma-control
\* manager, main is either about to call Wayland::new or has exited; it
\* never gets to the subscription of the coordinate stream nor to the
\* select!, no callback has run, no output is bound and no request has been
\* issued.
C18_UnsupportedCompositorRefused ==
    ~hasManager =>
        /\ pc \in {"start", "exited"}
        /\ NothingBound
        /\ handled = None
        /\ sent = <<>>
        /\ last = NoStep
        /\ coordinates = None
        /\ temp = INITIAL_TEMP

\* main has exited although the roundtrip of Wayland::new received the
\* announcement of an output, which is left undispatched
C18_Witness ==
    /\ ~hasManager
    /\ pc = "exited"
    /\ queue # <<>>
    /\ Head(queue).type = "Global"
    /\ NothingBound

----------------------------------------------------------------------------
(* C19 *)

\* the iteration that has just run was woken by an Err item of the
\* coordinate stream
StreamErrorStep ==
    /\ IterateStep
    /\ last'.wake = "coords"
    /\ ~last'.item_ok

\* C19: the iteration in which the coordinate stream yields an Err item ends
\* main: the stored coordinates, the sun times, the temperature and the
\* outputs are as before, nothing was computed, set_temperature was not
\* called and no request was issued; and once main has exited nothing
\* happens any more, so the stream is not polled again.
C19_StreamErrorEndsLoop ==
    [][/\ StreamErrorStep =>
            /\ pc' = "exited"
            /\ coordinates' = coordinates
            /\ sun' = sun
            /\ temp' = temp
            /\ outputs' = outputs
            /\ last'.computed = None
            /\ sent' = <<>>
       /\ pc # "exited"
      ]_vars

\* main has exited on an Err item while it held coordinates from an earlier
\* item and an output was bound
C19_Witness ==
    /\ pc = "exited"
    /\ last.wake = "coords"
    /\ ~last.item_ok
    /\ coordinates # None
    /\ outputs # <<>>

----------------------------------------------------------------------------
(* C20 *)

\* the output has no ramp size yet
RampPending(o) == o.ramp_size = 0

\* Wayland::set_temperature(t) is entered: self.state.set_temperature(t)
SetTemperatureStep ==
    /\ pc = "select"
    /\ pc' = "apply"

\* what set_temperature does to the outputs without a ramp size: the call
\* records the temperature; its loop issues no request for them and leaves
\* them as they are, and returns Ok when no other output is dirty.  The
\* flag afterwards: set (as_claimed), or as Output::set_color leaves it
PendingOutcome(as_claimed) ==
    /\ SetTemperatureStep =>
        /\ sent' = <<>>
        /\ \E t \in ApiTemps :
            \A i \in DOMAIN outputs : RampPending(outputs[i]) =>
                /\ outputs'[i].color = [outputs[i].color EXCEPT !.temp = t]
                /\ outputs'[i].ramp_size = 0
                /\ outputs'[i].color_changed =
                      (\/ as_claimed
                       \/ outputs[i].color_changed
                       \/ outputs[i].color.temp # t)
    /\ UpdateLoopStep =>
        /\ \A i \in DOMAIN outputs : RampPending(outputs[i]) =>
                /\ PushCount(sent', outputs[i].reg_name) = 0
                /\ outputs'[i] = outputs[i]
                /\ as_claimed => outputs'[i].color_changed
        /\ (\A i \in DOMAIN outputs :
                outputs[i].color_changed => RampPending(outputs[i]))
           => (pc' = "select" /\ sent' = <<>>)

\* what the dispatch of GammaSize(n), n > 0, does for a live output without
\* a ramp size: one request built from the output's current profile and n
\* samples; may_fail admits the panic of a failed update
SizeArrives(may_fail) ==
    (/\ DispatchStep
     /\ Head(queue).type = "GammaSize"
     /\ Head(queue).size > 0
     /\ Target(outputs, Head(queue)) # None
     /\ RampPending(Unwrap(Target(outputs, Head(queue)))))
    => LET ev == Head(queue)
           i == position_gamma_control(outputs, ev.name)
       IN \/ /\ pc' = pc
             /\ Len(sent') = 1
             /\ sent'[1].name = outputs[i].reg_name
             /\ sent'[1].temp = outputs[i].color.temp
             /\ sent'[1].size = ev.size
             /\ outputs'[i] = [outputs[i] EXCEPT !.ramp_size = ev.size,
                                                 !.color_changed = FALSE]
          \/ /\ may_fail
             /\ pc' = "panicked"
             /\ sent' = <<>>

----------------------------------------------------------------------------
(* C21 *)

\* an output of outs holds another temperature than t
Diverged(outs, t) == \E i \in DOMAIN outs : outs[i].color.temp # t

\* a timer-triggered iteration that recomputes the temperature and is over
\* with this step: main is back at the select!
TimerIterationStep ==
    /\ IterateStep
    /\ last'.wake = "timer"
    /\ last'.computed # None
    /\ pc' = "select"

\* C21 (as claimed): when a live output holds another temperature than
\* main's `temp`, the timer-triggered iteration that recomputes the
\* temperature ends with every live output holding main's `temp`.
C21_TimerHealsDivergence ==
    [][(TimerIterationStep /\ Diverged(outputs, temp))
          => ~Diverged(outputs', temp')]_vars

----------------------------------------------------------------------------
(* C22 *)

\* output o has a ramp size, is clean and holds temperature t, for which
\* the ramp generator builds a ramp
UpToDate(o, t) ==
    /\ ~o.color_changed
    /\ o.color.temp = t
    /\ colorramp_fill_ok(o.color)

\* the last set_gamma request of reqs for the output named n is one for
\* temperature t and size samples
LastPushIs(reqs, n, t, size) ==
    /\ PushCount(reqs, n) > 0
    /\ LET k == CHOOSE k \in DOMAIN reqs :
                    /\ reqs[k].name = n
                    /\ \A j \in DOMAIN reqs : reqs[j].name = n => j <= k
       IN reqs[k].temp = t /\ reqs[k].size = size

\* a clean output with a ramp size shows the ramp of the profile and the
\* ramp size it holds: a step leaves such an output as it was and pushes
\* nothing for it, or its last request for it is one for exactly them
CleanOutputsPushed ==
    \A i \in DOMAIN outputs' :
        (outputs'[i].ramp_size > 0 /\ ~outputs'[i].color_changed) =>
            \/ /\ PushCount(sent', outputs'[i].reg_name) = 0
               /\ \E j \in DOMAIN outputs :
                    /\ outputs[j].reg_name = outputs'[i].reg_name
                    /\ outputs[j].ramp_size = outputs'[i].ramp_size
                    /\ outputs[j].color = outputs'[i].color
                    /\ ~outputs[j].color_changed
            \/ LastPushIs(sent', outputs'[i].reg_name,
                          outputs'[i].color.temp, outputs'[i].ramp_size)

\* C22 (as claimed): whenever main is at the select!, that is after
\* Wayland::new and at the end of every iteration of the loop, every live
\* output with ramp_size > 0 is clean, and the ramp last pushed to it was
\* built from main's `temp` and the output's current ramp_size: the output
\* holds `temp`, the generator builds a ramp for it, and every step that
\* leaves an output clean has pushed the ramp of what the output holds.
C22_NoStaleBuffer ==
    /\ [](pc = "select" =>
            \A i \in DOMAIN outputs :
                outputs[i].ramp_size > 0 => UpToDate(outputs[i], temp))
    /\ [][CleanOutputsPushed]_vars

=============================================================================
